---- MODULE Spec2Model ----
(***************************************************************************)
(* FinWise (shivam-m0/fintech): a Flask application over three tables      *)
(* (users, transactions, user_settings) with flask-login sessions.         *)
(*                                                                         *)
(* State: the three tables (sequences of rows in rowid order), the         *)
(* login cookie of each client, the position of each client's request     *)
(* that is still between two commits, the wall clock's date, and the       *)
(* last response sent.  One action per route handler; a handler that       *)
(* commits more than once (signup, settings) is one action per commit so   *)
(* that requests of other clients can interleave between its commits.      *)
(*                                                                         *)
(* Not modelled: created_at (an audit timestamp no handler reads),         *)
(* templates, the CSV file name, the mock earnings/savings arithmetic      *)
(* beyond what api_dashboard_data computes from spending.                  *)
(***************************************************************************)
EXTENDS Integers, Sequences, FiniteSets, TLC

VARIABLES users, transactions, user_settings, sessions, pc, now, response

vars == <<users, transactions, user_settings, sessions, pc, now, response>>

----------------------------------------------------------------------------
(* Bounds of the model *)

\* largest rowid the transactions table hands out
MaxTransactions == 3

\* most rows of the tables the aggregation is run on
MaxAggRows == 2

\* number of consecutive wall-clock dates the aggregation checks range over
NowSpan == 90

\* the clients (cookie jars) that send requests
Clients == {"c1", "c2"}

Emails == {"a@x", "b@x"}

\* request.form.get(...) of an absent field
None == "<None>"

----------------------------------------------------------------------------
(* datetime.date: a (year, month, day) triple; arithmetic goes through the *)
(* proleptic Gregorian ordinal, as datetime - timedelta does.              *)

Date(y, m, d) == [year |-> y, month |-> m, day |-> d]

is_leap(y) == (y % 4 = 0) /\ ((y % 100 # 0) \/ (y % 400 = 0))

DAYS_IN_MONTH == <<31, 28, 31, 30, 31, 30, 31, 31, 30, 31, 30, 31>>

DAYS_BEFORE_MONTH == <<0, 31, 59, 90, 120, 151, 181, 212, 243, 273, 304, 334>>

days_in_month(y, m) == IF m = 2 /\ is_leap(y) THEN 29 ELSE DAYS_IN_MONTH[m]

days_before_month(y, m) ==
    DAYS_BEFORE_MONTH[m] + (IF m > 2 /\ is_leap(y) THEN 1 ELSE 0)

days_before_year(y) ==
    LET y1 == y - 1
    IN  y1 * 365 + (y1 \div 4) - (y1 \div 100) + (y1 \div 400)

toordinal(dt) ==
    days_before_year(dt.year) + days_before_month(dt.year, dt.month) + dt.day

fromordinal(ord) ==
    LET n0   == ord - 1
        n400 == n0 \div 146097
        r400 == n0 % 146097
        n100 == r400 \div 36524
        r100 == r400 % 36524
        n4   == r100 \div 1461
        r4   == r100 % 1461
        n1   == r4 \div 365
        n    == r4 % 365
        y    == n400 * 400 + 1 + n100 * 100 + n4 * 4 + n1
        leap == (n1 = 3) /\ ((n4 # 24) \/ (n100 = 3))
        m0   == (n + 50) \div 32
        p0   == DAYS_BEFORE_MONTH[m0] + (IF m0 > 2 /\ leap THEN 1 ELSE 0)
        m    == IF p0 > n THEN m0 - 1 ELSE m0
        p    == IF p0 > n
                THEN p0 - (DAYS_IN_MONTH[m] + (IF m = 2 /\ leap THEN 1 ELSE 0))
                ELSE p0
    IN  IF n1 = 4 \/ n100 = 4
        THEN Date(y - 1, 12, 31)
        ELSE Date(y, m, n - p + 1)

\* date - timedelta(days=k)
minus_days(dt, k) == fromordinal(toordinal(dt) - k)

\* date.__ge__ : comparison of the (year, month, day) triples
date_ge(d1, d2) ==
    \/ d1.year > d2.year
    \/ d1.year = d2.year /\ d1.month > d2.month
    \/ d1.year = d2.year /\ d1.month = d2.month /\ d1.day >= d2.day

MONTH_ABBR ==
    <<"Jan", "Feb", "Mar", "Apr", "May", "Jun",
      "Jul", "Aug", "Sep", "Oct", "Nov", "Dec">>

\* strftime('%b')
strftime_b(dt) == MONTH_ABBR[dt.month]

\* strftime('%Y-%m-%d'): the text, kept as its three fields
strftime_ymd(dt) == [text |-> "ymd", y |-> dt.year, m |-> dt.month, d |-> dt.day]

\* datetime.strptime(s, '%Y-%m-%d').date(): None raises TypeError, text that
\* is no calendar date raises ValueError
strptime_ymd(s) ==
    IF s.text = None THEN [err |-> "TypeError"]
    ELSE IF s.text # "ymd" THEN [err |-> "ValueError"]
    ELSE IF ~(s.m \in 1..12) THEN [err |-> "ValueError"]
    ELSE IF ~(s.d \in 1..days_in_month(s.y, s.m)) THEN [err |-> "ValueError"]
    ELSE [err |-> "", value |-> Date(s.y, s.m, s.d)]

\* float(s) for the amount texts the model sends
float(s) ==
    CASE s = None   -> [err |-> "TypeError"]
      [] s = "3"    -> [err |-> "", value |-> 3]
      [] s = "5"    -> [err |-> "", value |-> 5]
      [] s = "0"    -> [err |-> "", value |-> 0]
      [] s = "-5"   -> [err |-> "", value |-> 0 - 5]
      [] OTHER      -> [err |-> "ValueError"]

----------------------------------------------------------------------------
(* The tables and the queries the handlers make *)

\* werkzeug generate_password_hash / check_password_hash
generate_password_hash(password) == <<"hash", password>>

check_password_hash(pwhash, password) == pwhash = <<"hash", password>>

\* INTEGER PRIMARY KEY of a new row: one more than the largest rowid
next_id(table) == IF table = <<>> THEN 1 ELSE table[Len(table)].id + 1

\* the query without its WHERE clause
filter_by_nothing(table, uid) == table

\* Query.filter_by(user_id=uid).all(): the rows in rowid order
filter_by_user_id(table, uid) == SelectSeq(table, LAMBDA r : r.user_id = uid)

\* User.query.filter_by(email=email): the rows in rowid order
filter_by_email(email) == SelectSeq(users, LAMBDA u : u.email = email)

\* Query.get(id): the row with this primary key, or <<>> for None
query_get(table, id) == SelectSeq(table, LAMBDA r : r.id = id)

\* a delete that matches on the owner of the row instead of its key
delete_rows_of_owner(table, id) ==
    SelectSeq(table, LAMBDA r :
        \A q \in {table[k] : k \in DOMAIN table} :
            q.id = id => r.user_id # q.user_id)

\* session.delete(row): the table without the row of this primary key
delete_row(table, id) == SelectSeq(table, LAMBDA r : r.id # id)

\* the users table enforces unique=True on email, nullable=False on the rest
users_insert_ok(email) == filter_by_email(email) = <<>>

User(id, name, email, password) ==
    [id            |-> id,
     name          |-> name,
     email         |-> email,
     password_hash |-> generate_password_hash(password)]

\* UserSettings(user_id=uid) with the column defaults
UserSettings(id, uid) ==
    [id              |-> id,
     user_id         |-> uid,
     budget_alerts   |-> TRUE,
     weekly_summary  |-> TRUE,
     security_alerts |-> FALSE,
     theme           |-> "light"]

Transaction(id, uid, amount, category, description, date) ==
    [id          |-> id,
     user_id     |-> uid,
     amount      |-> amount,
     category    |-> category,
     description |-> description,
     date        |-> date]

\* Transaction.to_dict (created_at left out)
to_dict(t) ==
    [id          |-> t.id,
     amount      |-> t.amount,
     category    |-> t.category,
     description |-> t.description,
     date        |-> strftime_ymd(t.date)]

\* ORDER BY date DESC: insertion of each row, in rowid order, before the
\* first row already placed whose date is strictly earlier
RECURSIVE insert_desc(_, _)
insert_desc(sorted, r) ==
    IF sorted = <<>> THEN <<r>>
    ELSE IF date_ge(Head(sorted).date, r.date)
         THEN <<Head(sorted)>> \o insert_desc(Tail(sorted), r)
         ELSE <<r>> \o sorted

RECURSIVE order_by_date_desc(_)
order_by_date_desc(rows) ==
    IF rows = <<>> THEN <<>>
    ELSE insert_desc(order_by_date_desc(SubSeq(rows, 1, Len(rows) - 1)),
                     rows[Len(rows)])

\* Transaction.query.filter_by(user_id=uid).order_by(Transaction.date.desc())
list_transactions(table, uid) ==
    order_by_date_desc(filter_by_user_id(table, uid))

\* sum(t.amount for t in rows)
RECURSIVE sum_amount(_)
sum_amount(rows) ==
    IF rows = <<>> THEN 0 ELSE Head(rows).amount + sum_amount(Tail(rows))

\* max([t.amount for t in rows]) if rows else 0
RECURSIVE max_amount(_)
max_amount(rows) ==
    IF rows = <<>> THEN 0
    ELSE IF Len(rows) = 1 THEN rows[1].amount
    ELSE LET m == max_amount(Tail(rows))
         IN  IF Head(rows).amount >= m THEN Head(rows).amount ELSE m

----------------------------------------------------------------------------
(* flask-login *)

\* the cookie of a client that is not logged in
NoUser == 0

\* load_user: User.query.get(int(user_id))
load_user(user_id) == query_get(users, user_id)

\* current_user.is_authenticated: the cookie names a user row that exists
is_authenticated(c) == sessions[c] # NoUser /\ load_user(sessions[c]) # <<>>

current_user(c) == load_user(sessions[c])[1]

\* login_user(user, remember=True)
login_user(c, user) == [sessions EXCEPT ![c] = user.id]

\* a logout that leaves the cookie in place
logout_user_keeps_cookie(c) == sessions

\* logout_user(): the session and the remember cookie are cleared
logout_user(c) == [sessions EXCEPT ![c] = NoUser]

Idle == [at |-> "idle"]

NoBody == <<>>

Resp(op, c, status, location, flash, body) ==
    [op |-> op, client |-> c, status |-> status, location |-> location,
     flash |-> flash, body |-> body]

\* what login_required answers for a request without a valid session
unauthorized(op, c) ==
    Resp(op, c, 302, "login", "Please log in to access this page.", NoBody)

\* no request of this client is between two commits
Ready(c) == pc[c] = Idle

----------------------------------------------------------------------------
(* Authentication routes *)

\* /login, GET or POST
login(c, method, email, password) ==
    /\ Ready(c)
    /\ UNCHANGED <<users, transactions, user_settings, pc, now>>
    /\ IF is_authenticated(c)
       THEN /\ response' = Resp("login", c, 302, "dashboard", "", NoBody)
            /\ UNCHANGED sessions
       ELSE IF method = "POST"
       THEN LET found == filter_by_email(email)
            IN  IF found # <<>>
                   /\ check_password_hash(found[1].password_hash, password)
                THEN /\ sessions' = login_user(c, found[1])
                     /\ response' = Resp("login", c, 302, "dashboard",
                                         "Welcome back to FinWise!", NoBody)
                ELSE /\ UNCHANGED sessions
                     /\ response' = Resp("login", c, 200, "",
                                         "Invalid email or password", NoBody)
       ELSE /\ response' = Resp("login", c, 200, "", "", NoBody)
            /\ UNCHANGED sessions

\* /signup up to the check for an existing email (lines 59-78); a request that
\* passes the check goes on to the first commit
signup(c, method, name, email, password, confirm) ==
    /\ Ready(c)
    /\ UNCHANGED <<users, transactions, user_settings, sessions, now>>
    /\ IF is_authenticated(c)
       THEN /\ response' = Resp("signup", c, 302, "dashboard", "", NoBody)
            /\ UNCHANGED pc
       ELSE IF method # "POST"
       THEN /\ response' = Resp("signup", c, 200, "", "", NoBody)
            /\ UNCHANGED pc
       ELSE IF \E f \in {name, email, password, confirm} : f \in {None, ""}
       THEN /\ response' = Resp("signup", c, 200, "",
                                "Please fill in all fields", NoBody)
            /\ UNCHANGED pc
       ELSE IF password # confirm
       THEN /\ response' = Resp("signup", c, 200, "",
                                "Passwords do not match", NoBody)
            /\ UNCHANGED pc
       ELSE IF filter_by_email(email) # <<>>
       THEN /\ response' = Resp("signup", c, 200, "",
                                "Email already registered", NoBody)
            /\ UNCHANGED pc
       ELSE /\ pc' = [pc EXCEPT ![c] = [at |-> "signup_commit_user",
                                        name |-> name, email |-> email,
                                        password |-> password]]
            /\ UNCHANGED response

\* /signup, lines 80-84: the user row is added and committed; the unique
\* index on users.email makes the commit raise IntegrityError, which no
\* handler catches, when the email has been registered meanwhile
signup_commit_user(c) ==
    /\ pc[c].at = "signup_commit_user"
    /\ UNCHANGED <<transactions, user_settings, sessions, now>>
    /\ IF users_insert_ok(pc[c].email)
       THEN LET user == User(next_id(users), pc[c].name, pc[c].email,
                             pc[c].password)
            IN  /\ users' = Append(users, user)
                /\ pc' = [pc EXCEPT ![c] = [at |-> "signup_commit_settings",
                                            user_id |-> user.id]]
                /\ UNCHANGED response
       ELSE /\ UNCHANGED users
            /\ pc' = [pc EXCEPT ![c] = Idle]
            /\ response' = Resp("signup", c, 500, "", "IntegrityError", NoBody)

\* /signup, lines 86-92: the default settings row is added and committed
signup_commit_settings(c) ==
    /\ pc[c].at = "signup_commit_settings"
    /\ UNCHANGED <<users, transactions, sessions, now>>
    /\ user_settings' = Append(user_settings,
                        UserSettings(next_id(user_settings), pc[c].user_id))
    /\ pc' = [pc EXCEPT ![c] = Idle]
    /\ response' = Resp("signup", c, 302, "login",
                        "Account created successfully! Please log in.", NoBody)

\* /logout
logout(c) ==
    /\ Ready(c)
    /\ UNCHANGED <<users, transactions, user_settings, pc, now>>
    /\ IF ~is_authenticated(c)
       THEN /\ response' = unauthorized("logout", c)
            /\ UNCHANGED sessions
       ELSE /\ sessions' = logout_user(c)
            /\ response' = Resp("logout", c, 302, "login",
                                "Logged out successfully", NoBody)

----------------------------------------------------------------------------
(* Aggregation, as the dashboard handlers compute it *)

\* the window with its first day left out
monthly_spending_after(rows, today) ==
    LET thirty_days_ago == minus_days(today, 30)
    IN  sum_amount(SelectSeq(rows, LAMBDA t :
            ~date_ge(thirty_days_ago, t.date)))

\* dashboard, lines 114-116: the amounts of the rows dated on or after the
\* date 30 days before today
monthly_spending(rows, today) ==
    LET thirty_days_ago == minus_days(today, 30)
    IN  sum_amount(SelectSeq(rows, LAMBDA t : date_ge(t.date, thirty_days_ago)))

\* lines 119-121 and 263-265: category -> summed amount
category_breakdown(rows) ==
    [cat \in {rows[k].category : k \in 1..Len(rows)} |->
        sum_amount(SelectSeq(rows, LAMBDA t : t.category = cat))]

\* api_dashboard_data, lines 273-288, one pass of the loop
month_entry(rows, today, i) ==
    LET month_date     == minus_days(today, 30 * i)
        month_spending ==
            sum_amount(SelectSeq(rows, LAMBDA t :
                /\ t.date.month = month_date.month
                /\ t.date.year = month_date.year))
        month_earnings == month_spending + (1000 + i * 100)
    IN  [month    |-> strftime_b(month_date),
         earnings |-> month_earnings,
         spending |-> month_spending,
         savings  |-> month_earnings - month_spending]

\* for i in range(5, -1, -1): the four lists of the JSON answer
monthly_data(rows, today) ==
    LET entry(k) == month_entry(rows, today, 6 - k)
    IN  [months   |-> [k \in 1..6 |-> entry(k).month],
         earnings |-> [k \in 1..6 |-> entry(k).earnings],
         spending |-> [k \in 1..6 |-> entry(k).spending],
         savings  |-> [k \in 1..6 |-> entry(k).savings]]

----------------------------------------------------------------------------
(* Main application routes *)

\* /dashboard
dashboard(c) ==
    /\ Ready(c)
    /\ UNCHANGED <<users, transactions, user_settings, sessions, pc, now>>
    /\ IF ~is_authenticated(c)
       THEN response' = unauthorized("dashboard", c)
       ELSE LET rows == filter_by_user_id(transactions, current_user(c).id)
            IN  response' = Resp("dashboard", c, 200, "", "",
                    [current_balance  |-> 10000,
                     monthly_spending |-> monthly_spending(rows, now),
                     categories       |-> category_breakdown(rows)])

\* /expenses POST, lines 137-154
expenses_post(c, amount, category, description, date_str) ==
    LET a == float(amount)
        d == strptime_ymd(date_str)
    IN  IF a.err # ""
        THEN /\ response' = Resp("expenses", c, 500, "", a.err, NoBody)
             /\ UNCHANGED transactions
        ELSE IF d.err # ""
        THEN /\ response' = Resp("expenses", c, 500, "", d.err, NoBody)
             /\ UNCHANGED transactions
        ELSE IF category = None \/ description = None
        THEN /\ response' = Resp("expenses", c, 500, "", "IntegrityError", NoBody)
             /\ UNCHANGED transactions
        ELSE /\ next_id(transactions) <= MaxTransactions
             /\ transactions' = Append(transactions,
                    Transaction(next_id(transactions), current_user(c).id,
                                a.value, category, description, d.value))
             /\ response' = Resp("expenses", c, 302, "expenses",
                                 "Expense added successfully!", NoBody)

\* /expenses GET, lines 156-169
expenses_get(c) ==
    LET rows == list_transactions(transactions, current_user(c).id)
    IN  /\ response' = Resp("expenses", c, 200, "", "",
                [transactions      |-> rows,
                 total_spent       |-> sum_amount(rows),
                 highest_expense   |-> max_amount(rows),
                 transaction_count |-> Len(rows)])
        /\ UNCHANGED transactions

\* /expenses, GET or POST
expenses(c, method, amount, category, description, date_str) ==
    /\ Ready(c)
    /\ UNCHANGED <<users, user_settings, sessions, pc, now>>
    /\ IF ~is_authenticated(c)
       THEN /\ response' = unauthorized("expenses", c)
            /\ UNCHANGED transactions
       ELSE IF method = "POST"
       THEN expenses_post(c, amount, category, description, date_str)
       ELSE expenses_get(c)

\* delete_expense without the comparison of lines 176-178
delete_expense_without_owner_check(c, transaction_id) ==
    /\ Ready(c)
    /\ UNCHANGED <<users, user_settings, sessions, pc, now>>
    /\ IF ~is_authenticated(c)
       THEN /\ response' = unauthorized("delete_expense", c)
            /\ UNCHANGED transactions
       ELSE LET found == query_get(transactions, transaction_id)
            IN  IF found = <<>>
                THEN /\ response' = Resp("delete_expense", c, 404, "", "", NoBody)
                     /\ UNCHANGED transactions
                ELSE /\ transactions' = delete_row(transactions, found[1].id)
                     /\ response' = Resp("delete_expense", c, 302, "expenses",
                                         "Transaction deleted successfully", NoBody)

\* /expenses/delete/<int:transaction_id>
delete_expense(c, transaction_id) ==
    /\ Ready(c)
    /\ UNCHANGED <<users, user_settings, sessions, pc, now>>
    /\ IF ~is_authenticated(c)
       THEN /\ response' = unauthorized("delete_expense", c)
            /\ UNCHANGED transactions
       ELSE LET found == query_get(transactions, transaction_id)
            IN  IF found = <<>>
                THEN /\ response' = Resp("delete_expense", c, 404, "", "", NoBody)
                     /\ UNCHANGED transactions
                ELSE IF found[1].user_id # current_user(c).id
                THEN /\ response' = Resp("delete_expense", c, 302, "expenses",
                                         "Unauthorized action", NoBody)
                     /\ UNCHANGED transactions
                ELSE /\ transactions' = delete_row(transactions, found[1].id)
                     /\ response' = Resp("delete_expense", c, 302, "expenses",
                                         "Transaction deleted successfully", NoBody)

\* /learn
learn(c) ==
    /\ Ready(c)
    /\ UNCHANGED <<users, transactions, user_settings, sessions, pc, now>>
    /\ response' = IF ~is_authenticated(c)
                   THEN unauthorized("learn", c)
                   ELSE Resp("learn", c, 200, "", "", NoBody)

\* an update that sets the flags in the form and leaves the others as they are
update_notifications_keeps_absent(table, settings_id, form) ==
    [k \in 1..Len(table) |->
        IF table[k].id = settings_id
        THEN [table[k] EXCEPT
                 !.budget_alerts   = @ \/ "budget_alerts" \in form,
                 !.weekly_summary  = @ \/ "weekly_summary" \in form,
                 !.security_alerts = @ \/ "security_alerts" \in form]
        ELSE table[k]]

\* the table with the flags of row settings_id set from the form's keys
update_notifications(table, settings_id, form) ==
    [k \in 1..Len(table) |->
        IF table[k].id = settings_id
        THEN [table[k] EXCEPT
                 !.budget_alerts   = "budget_alerts" \in form,
                 !.weekly_summary  = "weekly_summary" \in form,
                 !.security_alerts = "security_alerts" \in form]
        ELSE table[k]]

\* current_user.name = name
update_profile(uid, name) ==
    [k \in 1..Len(users) |->
        IF users[k].id = uid THEN [users[k] EXCEPT !.name = name] ELSE users[k]]

\* /settings from line 201 on: table is user_settings once the request holds
\* its row (the one found, or the one it added), settings_id names that row,
\* req holds the request's method and form
settings_finish(c, uid, table, settings_id, req) ==
    LET row == query_get(table, settings_id)[1]
    IN  IF req.method # "POST"
        THEN /\ response' = Resp("settings", c, 200, "", "", row)
             /\ user_settings' = table
             /\ UNCHANGED users
        ELSE IF req.action = "update_profile"
        THEN IF req.name = None
             THEN /\ response' = Resp("settings", c, 500, "",
                                      "IntegrityError", NoBody)
                  /\ user_settings' = table
                  /\ UNCHANGED users
             ELSE /\ users' = update_profile(uid, req.name)
                  /\ user_settings' = table
                  /\ response' = Resp("settings", c, 302, "settings",
                                      "Profile updated successfully", NoBody)
        ELSE IF req.action = "update_notifications"
        THEN /\ user_settings' = update_notifications(table, row.id, req.form)
             /\ UNCHANGED users
             /\ response' = Resp("settings", c, 302, "settings",
                                 "Notification preferences updated", NoBody)
        ELSE /\ user_settings' = table
             /\ UNCHANGED users
             /\ response' = Resp("settings", c, 302, "settings", "", NoBody)

\* /settings, GET or POST: the query of line 194; a request that finds the
\* user's row runs to its end, one that finds none goes on to the commit of
\* lines 197-199
settings(c, method, action, name, form) ==
    /\ Ready(c)
    /\ UNCHANGED <<transactions, sessions, now>>
    /\ LET req == [method |-> method, action |-> action,
                   name |-> name, form |-> form]
       IN  IF ~is_authenticated(c)
           THEN /\ response' = unauthorized("settings", c)
                /\ UNCHANGED <<users, user_settings, pc>>
           ELSE IF filter_by_user_id(user_settings, current_user(c).id) = <<>>
           THEN /\ pc' = [pc EXCEPT ![c] = [at |-> "settings_create",
                                            user_id |-> current_user(c).id,
                                            req |-> req]]
                /\ UNCHANGED <<users, user_settings, response>>
           ELSE /\ settings_finish(c, current_user(c).id, user_settings,
                    filter_by_user_id(user_settings, current_user(c).id)[1].id,
                    req)
                /\ UNCHANGED pc

\* /settings, lines 197-199 and on: the request that found no row adds one
settings_create(c) ==
    /\ pc[c].at = "settings_create"
    /\ UNCHANGED <<transactions, sessions, now>>
    /\ pc' = [pc EXCEPT ![c] = Idle]
    /\ settings_finish(c, pc[c].user_id,
                       Append(user_settings,
                           UserSettings(next_id(user_settings), pc[c].user_id)),
                       next_id(user_settings), pc[c].req)

\* f'{t.amount:.2f}' of an amount that is a whole number
format_2f(amount) == [text |-> "fixed2", units |-> amount, cents |-> 0]

\* one CSV row
csv_row(t) ==
    <<strftime_ymd(t.date), t.category, t.description, format_2f(t.amount)>>

\* /export_data
export_data(c) ==
    /\ Ready(c)
    /\ UNCHANGED <<users, transactions, user_settings, sessions, pc, now>>
    /\ IF ~is_authenticated(c)
       THEN response' = unauthorized("export_data", c)
       ELSE LET rows == list_transactions(transactions, current_user(c).id)
            IN  IF rows = <<>>
                THEN response' = Resp("export_data", c, 302, "expenses",
                                      "No data to export", NoBody)
                ELSE response' = Resp("export_data", c, 200, "", "",
                         <<<<"Date", "Category", "Description", "Amount">>>>
                         \o [k \in 1..Len(rows) |-> csv_row(rows[k])])

\* /api/transactions
api_transactions(c) ==
    /\ Ready(c)
    /\ UNCHANGED <<users, transactions, user_settings, sessions, pc, now>>
    /\ IF ~is_authenticated(c)
       THEN response' = unauthorized("api_transactions", c)
       ELSE LET rows == list_transactions(transactions, current_user(c).id)
            IN  response' = Resp("api_transactions", c, 200, "", "",
                                 [k \in 1..Len(rows) |-> to_dict(rows[k])])

\* /api/dashboard_data
api_dashboard_data(c) ==
    /\ Ready(c)
    /\ UNCHANGED <<users, transactions, user_settings, sessions, pc, now>>
    /\ IF ~is_authenticated(c)
       THEN response' = unauthorized("api_dashboard_data", c)
       ELSE LET rows == filter_by_user_id(transactions, current_user(c).id)
                data == monthly_data(rows, now)
            IN  response' = Resp("api_dashboard_data", c, 200, "", "",
                    [categories |-> category_breakdown(rows),
                     months     |-> data.months,
                     earnings   |-> data.earnings,
                     spending   |-> data.spending,
                     savings    |-> data.savings])

----------------------------------------------------------------------------------------------------------------------------------------
(* Specifications *)

NoResponse == Resp("", "", 0, "", "", NoBody)

\* the date the wall clock shows when it is not part of what is checked
Today == Date(2024, 3, 1)

Methods == {"GET", "POST"}

Flags == {"budget_alerts", "weekly_summary", "security_alerts"}

YmdText(y, m, d) == [text |-> "ymd", y |-> y, m |-> m, d |-> d]

\* amount fields sent: positive, negative, zero, not a number, absent
AmountTexts == {"5", "-5", "0", "abc", None}

\* date fields sent: two dates, a day that does not exist, no date, absent
DateTexts ==
    {YmdText(2024, 1, 30), YmdText(2024, 1, 31), YmdText(2024, 2, 30),
     [text |-> "soon"], [text |-> None]}

\* both accounts signed up, nobody logged in
TwoUsers ==
    <<User(1, "n", "a@x", "pw"), User(2, "n", "b@x", "pw")>>

\* the database after create_all(), no client logged in
Init ==
    /\ users = <<>>
    /\ transactions = <<>>
    /\ user_settings = <<>>
    /\ sessions = [c \in Clients |-> NoUser]
    /\ pc = [c \in Clients |-> Idle]
    /\ now = Today
    /\ response = NoResponse

\* the sign-in and settings routes, with every interleaving of the commits
\* of signup and settings
Next ==
    \/ \E c \in Clients, email \in Emails, password \in {"pw", "bad"} :
           login(c, "POST", email, password)
    \/ \E c \in Clients, method \in Methods, email \in Emails,
          confirm \in {"pw", "bad"} :
           signup(c, method, "n", email, "pw", confirm)
    \/ \E c \in Clients : signup_commit_user(c)
    \/ \E c \in Clients : signup_commit_settings(c)
    \/ \E c \in Clients : logout(c)
    \/ \E c \in Clients : settings(c, "GET", None, None, {})
    \/ \E c \in Clients, form \in {{}, {"budget_alerts"}} :
           settings(c, "POST", "update_notifications", None, form)
    \/ \E c \in Clients : settings_create(c)

Spec == Init /\ [][Next]_vars

\* both users signed up and hold their settings row; no transaction yet
InitTxn ==
    /\ users = TwoUsers
    /\ transactions = <<>>
    /\ user_settings = <<UserSettings(1, 1), UserSettings(2, 2)>>
    /\ sessions = [c \in Clients |-> NoUser]
    /\ pc = [c \in Clients |-> Idle]
    /\ now = Today
    /\ response = NoResponse

\* the transaction routes
NextTxn ==
    \/ \E c \in Clients, email \in Emails : login(c, "POST", email, "pw")
    \/ \E c \in Clients : logout(c)
    \/ \E c \in Clients : expenses(c, "GET", None, None, None, [text |-> None])
    \/ \E c \in Clients, amount \in {"5", "abc"},
          date_str \in {YmdText(2024, 1, 30), YmdText(2024, 1, 31),
                        YmdText(2024, 2, 30)} :
           expenses(c, "POST", amount, "food", "lunch", date_str)
    \/ \E c \in Clients, transaction_id \in 1..(MaxTransactions + 1) :
           delete_expense(c, transaction_id)
    \/ \E c \in Clients : export_data(c)
    \/ \E c \in Clients : api_transactions(c)

SpecTxn == InitTxn /\ [][NextTxn]_vars

\* the create route with every kind of amount, category and date field
NextCreate ==
    \/ \E c \in Clients, email \in Emails : login(c, "POST", email, "pw")
    \/ \E c \in Clients : logout(c)
    \/ \E c \in Clients : expenses(c, "GET", None, None, None, [text |-> None])
    \/ \E c \in Clients, amount \in AmountTexts, date_str \in DateTexts :
           expenses(c, "POST", amount, "food", "lunch", date_str)
    \/ \E c \in Clients, category \in {"food", None},
          description \in {"lunch", None} :
           expenses(c, "POST", "5", category, description,
                    YmdText(2024, 1, 31))

SpecCreate == InitTxn /\ [][NextCreate]_vars

\* every route behind login_required, each with one request body
NextAuth ==
    \/ \E c \in Clients, email \in Emails : login(c, "POST", email, "pw")
    \/ \E c \in Clients : logout(c)
    \/ \E c \in Clients : dashboard(c)
    \/ \E c \in Clients, method \in Methods :
           expenses(c, method, "5", "food", "lunch", YmdText(2024, 1, 31))
    \/ \E c \in Clients, transaction_id \in 1..(MaxTransactions + 1) :
           delete_expense(c, transaction_id)
    \/ \E c \in Clients : learn(c)
    \/ \E c \in Clients : settings(c, "GET", None, None, {})
    \/ \E c \in Clients, name \in {"m", None} :
           settings(c, "POST", "update_profile", name, {})
    \/ \E c \in Clients : export_data(c)
    \/ \E c \in Clients : api_transactions(c)
    \/ \E c \in Clients : api_dashboard_data(c)

SpecAuth == InitTxn /\ [][NextAuth]_vars

\* user 1 holds a settings row and a transaction; user 2 is being signed up
\* by client c2: its user row is committed, its settings row is not yet
InitSettings ==
    /\ users = TwoUsers
    /\ transactions =
           <<Transaction(1, 1, 5, "food", "lunch", Date(2024, 1, 31))>>
    /\ user_settings = <<UserSettings(1, 1)>>
    /\ sessions = [c \in Clients |-> NoUser]
    /\ pc = [c \in Clients |->
                IF c = "c2"
                THEN [at |-> "signup_commit_settings", user_id |-> 2]
                ELSE Idle]
    /\ now = Today
    /\ response = NoResponse

\* the settings route with every notification form
NextSettings ==
    \/ \E c \in Clients, email \in Emails : login(c, "POST", email, "pw")
    \/ \E c \in Clients : logout(c)
    \/ \E c \in Clients : signup_commit_settings(c)
    \/ \E c \in Clients : settings(c, "GET", None, None, {})
    \/ \E c \in Clients, form \in SUBSET Flags :
           settings(c, "POST", "update_notifications", None, form)
    \/ \E c \in Clients : settings_create(c)

SpecSettings == InitSettings /\ [][NextSettings]_vars

\* the dates and amounts of the rows the aggregation is run on
AggDates == {Date(2023, 12, 31), Date(2024, 1, 30), Date(2024, 1, 31)}

AggAmounts == {3, 5}

AggTables ==
    UNION {[1..n -> AggAmounts \X AggDates] : n \in 0..MaxAggRows}

FirstNow == Date(2024, 1, 1)

\* user 1 is logged in on c1 and holds any of the tables, on any of the dates
InitAgg ==
    /\ users = TwoUsers
    /\ \E rows \in AggTables :
           transactions = [k \in DOMAIN rows |->
               Transaction(k, 1, rows[k][1], "food", "lunch", rows[k][2])]
    /\ user_settings = <<UserSettings(1, 1), UserSettings(2, 2)>>
    /\ sessions = [c \in Clients |-> IF c = "c1" THEN 1 ELSE NoUser]
    /\ pc = [c \in Clients |-> Idle]
    /\ \E k \in 0..NowSpan : now = fromordinal(toordinal(FirstNow) + k)
    /\ response = NoResponse

NextAgg ==
    \/ \E c \in Clients : dashboard(c)
    \/ \E c \in Clients : api_dashboard_data(c)

SpecAgg == InitAgg /\ [][NextAgg]_vars

----------------------------------------------------------------------------
(* Claims about signup and the settings record, checked under Spec *)

NoTwoUsersShareEmail ==
    \A i, j \in 1..Len(users) : users[i].email = users[j].email => i = j

\* the commit of a signup request of client c whose email is registered by
\* the time it commits
SignupCommitOfRegisteredEmail(c) ==
    /\ pc[c].at = "signup_commit_user"
    /\ pc'[c].at # "signup_commit_user"
    /\ filter_by_email(pc[c].email) # <<>>

\* C2: no two user rows share an email, and a signup whose email is already
\* registered, also one whose check and insert interleave with another
\* signup of the same email, fails with the duplicate-email outcome ("Email
\* already registered", the signup form shown again) and adds no user row
\* and no settings row.
C2_DuplicateSignupFailsWithDuplicateEmail ==
    [][/\ NoTwoUsersShareEmail
       /\ \A c \in Clients :
              SignupCommitOfRegisteredEmail(c) =>
                  /\ response' = Resp("signup", c, 200, "",
                                      "Email already registered", NoBody)
                  /\ users' = users
                  /\ user_settings' = user_settings]_vars

\* C3: every user has at most one settings row, in every interleaving of
\* the commits of signup with logins and settings requests.
C3_AtMostOneSettingsPerUser ==
    \A k \in 1..Len(users) :
        Len(filter_by_user_id(user_settings, users[k].id)) <= 1

----------------------------------------------------------------------------
(* Claims about the transaction routes, checked under SpecTxn; C4 under   *)
(* SpecCreate                                                             *)

Rows(table) == {table[k] : k \in DOMAIN table}

TransactionIds == 1..(MaxTransactions + 1)

\* C1: a delete request of an authenticated user for a stored transaction of
\* another user is refused ("Unauthorized action"), changes no table, and
\* the transaction is still in its owner's listing with the same fields.
C1_ForeignDeleteRefused ==
    [][\A c \in Clients, t \in Rows(transactions) :
           (/\ is_authenticated(c)
            /\ t.user_id # current_user(c).id
            /\ delete_expense(c, t.id))
           => /\ response' = Resp("delete_expense", c, 302, "expenses",
                                  "Unauthorized action", NoBody)
              /\ transactions' = transactions
              /\ users' = users
              /\ user_settings' = user_settings
              /\ t \in Rows(list_transactions(transactions', t.user_id))]_vars

\* a foreign delete was refused while the table holds rows of both users
C1_Witness ==
    /\ response.op = "delete_expense"
    /\ response.flash = "Unauthorized action"
    /\ \E t \in Rows(transactions) : t.user_id # sessions[response.client]
    /\ \E t \in Rows(transactions) : t.user_id = sessions[response.client]

\* C4: every stored transaction has a strictly positive amount, because a
\* create request whose amount is not a positive decimal is refused before
\* anything is stored.
C4_StoredAmountsPositive ==
    \A k \in 1..Len(transactions) : transactions[k].amount > 0

\* C10: a delete request of the owner removes exactly that transaction and
\* changes no other row, user or settings record; a delete request for an
\* id that is not stored answers 404 and changes nothing; a row enters the
\* table only through a create request of its owner, so a deleted
\* transaction does not come back by itself.
C10_OwnerDeleteRemovesExactlyOne ==
    [][/\ \A c \in Clients, id \in TransactionIds :
              (delete_expense(c, id) /\ is_authenticated(c))
              => /\ users' = users
                 /\ user_settings' = user_settings
                 /\ query_get(transactions, id) = <<>>
                    => /\ response' = Resp("delete_expense", c, 404, "", "",
                                           NoBody)
                       /\ transactions' = transactions
                 /\ \A t \in Rows(transactions) :
                        (t.id = id /\ t.user_id = current_user(c).id)
                        => /\ Rows(transactions') = Rows(transactions) \ {t}
                           /\ Len(transactions') = Len(transactions) - 1
                           /\ query_get(transactions', id) = <<>>
                           /\ t \notin Rows(list_transactions(transactions', t.user_id))
       /\ \A t \in Rows(transactions') \ Rows(transactions) :
              \E c \in Clients :
                  /\ t.user_id = sessions[c]
                  /\ response' = Resp("expenses", c, 302, "expenses",
                                      "Expense added successfully!", NoBody)]_vars

\* the owner has deleted one of two stored transactions
C10_Witness ==
    /\ response.op = "delete_expense"
    /\ response.flash = "Transaction deleted successfully"
    /\ Len(transactions) = 1
    /\ transactions[1].id = 2

\* comparison of two '%Y-%m-%d' texts as dates
ymd_text_ge(a, b) ==
    \/ a.y > b.y
    \/ a.y = b.y /\ a.m > b.m
    \/ a.y = b.y /\ a.m = b.m /\ a.d >= b.d

\* the stored rows of user uid after the step
MineAfter(uid) == {t \in Rows(transactions') : t.user_id = uid}

\* the listing page shows exactly the user's rows, newest date first
ListingExact(rows, uid) ==
    /\ Rows(rows) = MineAfter(uid)
    /\ Len(rows) = Cardinality(MineAfter(uid))
    /\ \A k \in 1..(Len(rows) - 1) : date_ge(rows[k].date, rows[k + 1].date)

\* the JSON array holds exactly the user's rows, newest date first
JsonExact(dicts, uid) ==
    /\ {dicts[k] : k \in DOMAIN dicts} = {to_dict(t) : t \in MineAfter(uid)}
    /\ Len(dicts) = Cardinality(MineAfter(uid))
    /\ \A k \in 1..(Len(dicts) - 1) : ymd_text_ge(dicts[k].date, dicts[k + 1].date)

\* the CSV lines after the header are the user's rows, each as often as it
\* is stored, newest date first
CsvExact(lines, uid) ==
    /\ Len(lines) = Cardinality(MineAfter(uid))
    /\ \A t \in MineAfter(uid) :
           Cardinality({k \in DOMAIN lines : lines[k] = csv_row(t)})
               = Cardinality({u \in MineAfter(uid) : csv_row(u) = csv_row(t)})
    /\ \A k \in 1..(Len(lines) - 1) : ymd_text_ge(lines[k][1], lines[k + 1][1])

\* C6: every stored transaction carries the id of an existing user, a new
\* row carries the id of the user whose session created it, and the
\* listing, the export and api/transactions of a user hold exactly the
\* stored transactions of that user, in non-increasing date order.
C6_PerUserIsolation ==
    [][/\ \A t \in Rows(transactions') :
              \E u \in Rows(users') : u.id = t.user_id
       /\ \A t \in Rows(transactions') \ Rows(transactions) :
              /\ response'.client \in Clients
              /\ response'.op = "expenses"
              /\ sessions[response'.client] = t.user_id
       /\ (response'.client \in Clients
           /\ response'.op \in {"expenses", "api_transactions", "export_data"})
          => LET uid == sessions'[response'.client]
             IN  /\ (response'.op = "expenses" /\ response'.status = 200)
                    => ListingExact(response'.body.transactions, uid)
                 /\ (response'.op = "api_transactions" /\ response'.status = 200)
                    => JsonExact(response'.body, uid)
                 /\ (response'.op = "export_data" /\ response'.status = 200)
                    => CsvExact(Tail(response'.body), uid)
                 /\ (response'.op = "export_data" /\ response'.status = 302
                     /\ uid # NoUser)
                    => MineAfter(uid) = {}]_vars

\* a listing of two rows was answered while the other user holds a row too
C6_Witness ==
    /\ response.op = "expenses"
    /\ response.status = 200
    /\ Len(response.body.transactions) = 2
    /\ response.body.transactions[1].date # response.body.transactions[2].date
    /\ \E t \in Rows(transactions) : t.user_id # sessions[response.client]

----------------------------------------------------------------------------
(* Claim about login_required, checked under SpecAuth *)

\* the routes decorated with login_required
ProtectedOps ==
    {"logout", "dashboard", "expenses", "delete_expense", "learn", "settings",
     "export_data", "api_transactions", "api_dashboard_data"}

\* C5: a request to a protected route by a client without a valid session
\* is answered with the redirect to login, carries no data and changes no
\* user, transaction, settings row or session; and a logout leaves its
\* client without a valid session, so every later request of that client is
\* such a request until it logs in again.
C5_UnauthenticatedRedirectedToLogin ==
    [][\A c \in Clients :
           /\ (/\ response'.client = c
               /\ response'.op \in ProtectedOps
               /\ ~is_authenticated(c))
              => /\ response' = unauthorized(response'.op, c)
                 /\ response'.status = 302
                 /\ response'.location = "login"
                 /\ response'.body = NoBody
                 /\ users' = users
                 /\ transactions' = transactions
                 /\ user_settings' = user_settings
                 /\ sessions' = sessions
           /\ (/\ response'.client = c
               /\ response'.op = "logout"
               /\ is_authenticated(c))
              => sessions'[c] = NoUser]_vars

\* a client without a session was sent to login by the delete route while
\* the other client is logged in and transactions are stored
C5_Witness ==
    /\ response.op = "delete_expense"
    /\ response.status = 302
    /\ response.location = "login"
    /\ sessions[response.client] = NoUser
    /\ transactions # <<>>
    /\ \E c \in Clients : sessions[c] # NoUser

----------------------------------------------------------------------------
(* Claim about the notification update, checked under SpecSettings *)

\* what a notification update of the row settings_id with this form leaves
\* behind: before is the table the update started from
NotificationsUpdated(before, settings_id, form) ==
    /\ users' = users
    /\ transactions' = transactions
    /\ Len(user_settings') = Len(before)
    /\ \A k \in DOMAIN before :
           IF before[k].id = settings_id
           THEN /\ user_settings'[k].budget_alerts = ("budget_alerts" \in form)
                /\ user_settings'[k].weekly_summary = ("weekly_summary" \in form)
                /\ user_settings'[k].security_alerts = ("security_alerts" \in form)
                /\ user_settings'[k].theme = before[k].theme
                /\ user_settings'[k].user_id = before[k].user_id
                /\ user_settings'[k].id = before[k].id
           ELSE user_settings'[k] = before[k]

\* C9: a notification update sets each of the three flags of the settings
\* record the request holds to whether its key is in the form, whatever the
\* flags were, and changes no theme, no user name, no other settings record
\* and no transaction.  This holds for a request that found the record and
\* for one that had to create it.
C9_NotificationUpdateSetsByPresence ==
    [][\A c \in Clients :
           /\ \A form \in SUBSET Flags :
                  (/\ response'.client = c
                   /\ response'.op = "settings"
                   /\ is_authenticated(c)
                   /\ filter_by_user_id(user_settings, sessions[c]) # <<>>
                   /\ settings(c, "POST", "update_notifications", None, form))
                  => NotificationsUpdated(user_settings,
                         filter_by_user_id(user_settings, sessions[c])[1].id,
                         form)
           /\ (/\ pc[c].at = "settings_create"
               /\ pc[c].req.method = "POST"
               /\ pc[c].req.action = "update_notifications"
               /\ settings_create(c))
              => /\ NotificationsUpdated(
                        Append(user_settings,
                               UserSettings(next_id(user_settings),
                                            pc[c].user_id)),
                        next_id(user_settings), pc[c].req.form)
                 /\ SubSeq(user_settings', 1, Len(user_settings))
                        = user_settings]_vars

\* an update with only security_alerts in the form has cleared the two
\* flags that default to true and set the one that defaults to false
C9_Witness ==
    /\ response.op = "settings"
    /\ response.flash = "Notification preferences updated"
    /\ \E r \in Rows(user_settings) :
           /\ r.user_id = sessions[response.client]
           /\ ~r.budget_alerts
           /\ ~r.weekly_summary
           /\ r.security_alerts
    /\ transactions # <<>>

----------------------------------------------------------------------------
(* Claims about the aggregation, checked under SpecAgg *)

RECURSIVE SumOfAmounts(_)
SumOfAmounts(S) ==
    IF S = {} THEN 0
    ELSE LET t == CHOOSE x \in S : TRUE
         IN  t.amount + SumOfAmounts(S \ {t})

\* the stored rows of the user the last response went to
RowsOfResponseUser ==
    {t \in Rows(transactions) : t.user_id = sessions[response.client]}

\* the calendar month that lies back months before the month of today
CalendarMonth(today, back) ==
    LET idx == today.year * 12 + (today.month - 1) - back
    IN  [year |-> idx \div 12, month |-> (idx % 12) + 1]

\* C7: the monthly trend has 6 entries, oldest first, one for each of the 6
\* consecutive calendar months ending with the month of now, each labelled
\* with its month and holding the sum of the amounts dated in that month.
C7_SixConsecutiveCalendarMonths ==
    (response.op = "api_dashboard_data" /\ response.status = 200)
    => /\ Len(response.body.months) = 6
       /\ Len(response.body.spending) = 6
       /\ \A k \in 1..6 :
              LET cm == CalendarMonth(now, 6 - k)
              IN  /\ response.body.months[k] = MONTH_ABBR[cm.month]
                  /\ response.body.spending[k] =
                         SumOfAmounts({t \in RowsOfResponseUser :
                             /\ t.date.year = cm.year
                             /\ t.date.month = cm.month})

\* C8: the dashboard's spending of the last 30 days is the sum of the
\* amounts of exactly the user's transactions dated on or after the day 30
\* days before now; it is 0 when there is none.
C8_RecentSpendingWindowInclusive ==
    (response.op = "dashboard" /\ response.status = 200)
    => response.body.monthly_spending =
           SumOfAmounts({t \in RowsOfResponseUser :
               toordinal(t.date) >= toordinal(now) - 30})

\* the user holds one transaction dated 30 days and one dated 31 days before
\* now, and the dashboard counted the first and not the second
C8_Witness ==
    /\ response.op = "dashboard"
    /\ response.status = 200
    /\ Len(transactions) = 2
    /\ toordinal(transactions[1].date) = toordinal(now) - 30
    /\ toordinal(transactions[2].date) = toordinal(now) - 31
    /\ response.body.monthly_spending = transactions[1].amount

====
